---------------------------- MODULE Spec2Model ----------------------------
(***************************************************************************)
(* Admission & ledger subsystem of the InstaScrape API: the credit ledger  *)
(* (credit-system.js), the abuse protection system (abuse-protection.js)   *)
(* and the two scrape handlers of index.js (POST /scrape, POST             *)
(* /test-scrape).  One request is one process; an action is the code a     *)
(* handler runs between two awaits (Node runs it without interleaving).    *)
(***************************************************************************)
EXTENDS Integers, Sequences, FiniteSets, TLC

VARIABLES
    now,            \* Date.now(), in seconds (TLC integers have 32 bits)
    tokens,         \* CreditManager.tokens: token id -> account
    nextToken,      \* number of token ids minted so far + 1 (ids are fresh)
    ipTracker,      \* AbuseProtectionSystem.ipTracker: ip -> {requests, failures}
    domainTracker,  \* AbuseProtectionSystem.domainTracker: domain -> {requests}
    suspiciousIPs,  \* AbuseProtectionSystem.suspiciousIPs
    bannedIPs,      \* AbuseProtectionSystem.bannedIPs
    abuseFile,      \* contents of abuse-reports.json (a list of reports)
    reportTasks,    \* reportAbuse calls in flight
    nextReport,     \* number of reportAbuse calls made so far + 1
    blacklistFailures, \* history: ip -> times of the failures recorded with a
                    \* reason that contains "blacklist"/"Blacklisted"
    req,            \* the requests: request id -> handler frame
    robotsCache,    \* BlacklistManager.robotsCache: domain -> {result, timestamp}
    robotsLookups,  \* checkRobotsTxt calls: request id -> state of the lookup
    licenseValid,   \* desktop application: whether a valid license is installed
    dailyUsage,     \* desktop application: scrapes counted today
    desktop,        \* desktop application: start-scraping calls -> state
    browser,        \* EnhancedScraper.browser: 0 for null, else the browser held
    browsers,       \* history: the browsers puppeteer.launch has produced
    pages,          \* the browser pages that are open: <<call, purpose>>
    scrapes         \* scrapeEnhanced calls: call id -> position of the call

creditVars == <<tokens, nextToken>>
abuseVars == <<ipTracker, domainTracker, suspiciousIPs, bannedIPs, blacklistFailures>>
ledgerVars == <<abuseFile, reportTasks, nextReport>>
robotVars == <<robotsCache, robotsLookups>>
desktopVars == <<licenseValid, dailyUsage, desktop>>
scraperVars == <<browser, browsers, pages, scrapes>>
vars == <<now, tokens, nextToken, ipTracker, domainTracker, suspiciousIPs,
          bannedIPs, abuseFile, reportTasks, nextReport, blacklistFailures, req,
          robotsCache, robotsLookups, licenseValid, dailyUsage, desktop,
          browser, browsers, pages, scrapes>>

\* the parts of the state that a specification of the server alone leaves
\* empty: no robots.txt decision cached or looked up, no desktop call, no
\* browser launched
NoRobots == robotsCache = <<>> /\ robotsLookups = <<>>
NoDesktop == licenseValid = FALSE /\ dailyUsage = 0 /\ desktop = <<>>
NoScraper == browser = 0 /\ browsers = {} /\ pages = {} /\ scrapes = <<>>

---------------------------------------------------------------------------
(* Bounds of the model *)

MaxReq == 3          \* requests per run of the credit specification
MaxTokens == 1       \* tokens minted per run
MaxClock == 2        \* clock steps per run
MaxReports == 1      \* reportAbuse calls per run
MaxGateReq == 2      \* requests per run of the gateway specification
MaxGateTicks == 2    \* last half hour of the gateway specification
MaxTicks == 3        \* last half hour of the rate limiter specification

Reqs == 1..MaxReq
TokenIds == 1..MaxTokens

---------------------------------------------------------------------------
(* JavaScript values that the credit arithmetic can produce.  A number is  *)
(* [kind |-> "num", n |-> value]; a function object (an inherited property *)
(* of the cost table), a non-numeric string and NaN carry n = 0.           *)

Num(n) == [kind |-> "num", n |-> n]
JsFunction == [kind |-> "fn", n |-> 0]
JsString == [kind |-> "str", n |-> 0]
JsNaN == [kind |-> "nan", n |-> 0]

\* a - b: both operands go through ToNumber; a function or a non-numeric
\* string becomes NaN
JsMinus(a, b) ==
    IF a.kind = "num" /\ b.kind = "num" THEN Num(a.n - b.n) ELSE JsNaN

\* a + b: string concatenation as soon as one operand's primitive is a
\* string (a function's primitive is its source text)
JsPlus(a, b) ==
    IF a.kind = "num" /\ b.kind = "num" THEN Num(a.n + b.n)
    ELSE IF a.kind \in {"fn", "str"} \/ b.kind \in {"fn", "str"} THEN JsString
    ELSE JsNaN

\* a < b: false whenever an operand converts to NaN
JsLess(a, b) == a.kind = "num" /\ b.kind = "num" /\ a.n < b.n

---------------------------------------------------------------------------
(* credit-system.js *)

PricingTiers == {"basic", "premium", "custom"}

\* the names a request can give as tier: the three of the cost table, a name
\* found nowhere ("gold"), and a name the cost table inherits from
\* Object.prototype ("toString", "constructor", ...)
TierNames == {"basic", "custom", "gold", "toString"}

\* 30 * 24 * 60 * 60 * 1000 ms, in seconds
ThirtyDays == 30 * 24 * 60 * 60

\* this.credits[tier]: an own property, an inherited one, or undefined
credits(tier) ==
    CASE tier = "basic" -> Num(1)
      [] tier = "premium" -> Num(5)
      [] tier = "custom" -> Num(10)
      [] tier = "toString" -> JsFunction
      [] OTHER -> [kind |-> "undefined", n |-> 0]

\* this.credits[requestedTier] || 1
creditsNeeded(tier) ==
    IF credits(tier).kind = "undefined" THEN Num(1) ELSE credits(tier)

getCreditsForTier(tier) ==
    CASE tier = "basic" -> 10
      [] tier = "premium" -> 20
      [] tier = "custom" -> 50
      [] OTHER -> 1

\* tokens are numbered up to limit
generateAccessTokenUpTo(tier, limit) ==
    /\ nextToken <= limit
    /\ tokens' = tokens @@ (nextToken :>
          [tier |-> tier,
           credits |-> Num(getCreditsForTier(tier)),
           usedCredits |-> Num(0),
           createdAt |-> now,
           expiresAt |-> now + ThirtyDays])
    /\ nextToken' = nextToken + 1
    /\ UNCHANGED <<now, robotVars, desktopVars, scraperVars, abuseVars, ledgerVars, req>>

generateAccessToken(tier) == generateAccessTokenUpTo(tier, MaxTokens)

\* the result of validateAndConsumeCredit(accessToken, requestedTier)
consumeResult(accessToken, requestedTier) ==
    IF accessToken \notin DOMAIN tokens THEN "invalid"
    ELSE IF now > tokens[accessToken].expiresAt THEN "expired"
    ELSE IF JsLess(JsMinus(tokens[accessToken].credits,
                           tokens[accessToken].usedCredits),
                   creditsNeeded(requestedTier)) THEN "insufficient"
    ELSE "valid"

\* the cost is added before the balance is tested
validateAndConsumeCreditChargeFirst(accessToken, requestedTier) ==
    CASE consumeResult(accessToken, requestedTier) = "expired" ->
            [t \in DOMAIN tokens \ {accessToken} |-> tokens[t]]
      [] consumeResult(accessToken, requestedTier) \in {"valid", "insufficient"} ->
            [tokens EXCEPT ![accessToken].usedCredits =
                JsPlus(@, creditsNeeded(requestedTier))]
      [] OTHER -> tokens

\* the expiry of one token evicts every token
validateAndConsumeCreditEvictsAll(accessToken, requestedTier) ==
    CASE consumeResult(accessToken, requestedTier) = "expired" -> <<>>
      [] consumeResult(accessToken, requestedTier) = "valid" ->
            [tokens EXCEPT ![accessToken].usedCredits =
                JsPlus(@, creditsNeeded(requestedTier))]
      [] OTHER -> tokens

\* the token table after validateAndConsumeCredit(accessToken, requestedTier)
validateAndConsumeCredit(accessToken, requestedTier) ==
    CASE consumeResult(accessToken, requestedTier) = "expired" ->
            [t \in DOMAIN tokens \ {accessToken} |-> tokens[t]]
      [] consumeResult(accessToken, requestedTier) = "valid" ->
            [tokens EXCEPT ![accessToken].usedCredits =
                JsPlus(@, creditsNeeded(requestedTier))]
      [] OTHER -> tokens

\* token.credits - token.usedCredits in the table tk: remainingCredits of a
\* successful validateAndConsumeCredit, available of an insufficient one
remainingCredits(tk, accessToken) ==
    JsMinus(tk[accessToken].credits, tk[accessToken].usedCredits)

\* getTokenInfo(accessToken): null for a token the table does not hold
getTokenInfo(accessToken) ==
    IF accessToken \notin DOMAIN tokens THEN "not-found"
    ELSE [tier |-> tokens[accessToken].tier,
          totalCredits |-> tokens[accessToken].credits,
          usedCredits |-> tokens[accessToken].usedCredits,
          remainingCredits |-> remainingCredits(tokens, accessToken),
          expiresAt |-> tokens[accessToken].expiresAt,
          createdAt |-> tokens[accessToken].createdAt]

\* the refund of index.js: if (token) token.usedCredits -= credits[tier] || 1
refundCredit(accessToken, tier) ==
    IF accessToken \in DOMAIN tokens
    THEN [tokens EXCEPT ![accessToken].usedCredits =
              JsMinus(@, creditsNeeded(tier))]
    ELSE tokens


---------------------------------------------------------------------------
(* URLs.  A hostname is the sequence of its characters, so that the       *)
(* substring and suffix tests of the code are computed, not assumed.      *)

\* a URL is its protocol, its host and its path; the protocol is https: and
\* the path is "/" where none is given
RootPath == <<"/">>
\* no url in the body
NoUrl == [kind |-> "none", protocol |-> "none", host |-> <<>>, path |-> <<>>]
\* new URL(url) throws
BadUrl == [kind |-> "bad", protocol |-> "none", host |-> <<>>, path |-> <<>>]
UrlAt(host, path) ==
    [kind |-> "url", protocol |-> "https:", host |-> host, path |-> path]
HttpUrlAt(host, path) == [UrlAt(host, path) EXCEPT !.protocol = "http:"]
Url(host) == UrlAt(host, RootPath)

HostAIo == <<"a", ".", "i", "o">>
HostBIo == <<"b", ".", "i", "o">>
HostXCom == <<"x", ".", "c", "o", "m">>
HostTiktok == <<"t", "i", "k", "t", "o", "k", ".", "c", "o", "m">>
HostSXCom == <<"s", ".", "x", ".", "c", "o", "m">>
HostAxCom == <<"a", "x", ".", "c", "o", "m">>
HostXComIo == <<"x", ".", "c", "o", "m", ".", "i", "o">>
HostUpperXCom == <<"X", ".", "C", "o", "m">>

\* String.prototype.toLowerCase, on the letters the hosts above and the
\* robots.txt rules below are made of
toLowerCase(s) ==
    [i \in 1..Len(s) |->
        CASE s[i] = "X" -> "x"
          [] s[i] = "C" -> "c"
          [] s[i] = "P" -> "p"
          [] OTHER -> s[i]]

\* new URL(url).hostname.toLowerCase()
hostname(url) == toLowerCase(url.host)

\* String.prototype.includes
includes(s, sub) ==
    \E i \in 1..(Len(s) - Len(sub) + 1) : SubSeq(s, i, i + Len(sub) - 1) = sub

\* the entries of RESTRICTED_DOMAINS that the hosts above can match
RESTRICTED_DOMAINS == {HostTiktok}

\* legacy validation of POST /scrape
isValidUrl(url) ==
    IF url.kind = "bad" THEN FALSE
    ELSE ~ \E restricted \in RESTRICTED_DOMAINS :
             includes(hostname(url), restricted) \/ hostname(url) = restricted

---------------------------------------------------------------------------
(* abuse-protection.js.  The operations act on a record s of the system's  *)
(* tables, so that a handler can apply several of them in one step; filed  *)
(* collects the reportAbuse calls the step makes.                          *)

maxRequestsPerIP == 100
maxRequestsPerDomain == 60
maxFailedAttempts == 10
maxBlacklistAttempts == 3
\* 60 * 60 * 1000 ms, in seconds
windowMs == 60 * 60

NoDomain == <<>>                      \* domain = null
InvalidUrlDomain == <<"invalid-url">>

extractDomain(url) ==
    IF url.kind = "bad" THEN InvalidUrlDomain ELSE hostname(url)

AbuseState ==
    [ipTracker |-> ipTracker, domainTracker |-> domainTracker,
     suspiciousIPs |-> suspiciousIPs, bannedIPs |-> bannedIPs,
     blacklistFailures |-> blacklistFailures, filed |-> <<>>]

\* requests.filter(time => t - time < windowMs)
InWindow(times, t) == SelectSeq(times, LAMBDA time : t - time < windowMs)

NewIpData == [requests |-> <<>>, failures |-> <<>>]

\* if (!this.ipTracker.has(ipKey)) this.ipTracker.set(ipKey, {...})
TrackIp(tracker, ip) ==
    IF ip \in DOMAIN tracker THEN tracker ELSE tracker @@ (ip :> NewIpData)

TrackDomain(tracker, domain) ==
    IF domain \in DOMAIN tracker THEN tracker
    ELSE tracker @@ (domain :> [requests |-> <<>>])

\* reportAbuse(ip, reason): the call, up to its first await
reportAbuse(s, ip, reason) ==
    [s EXCEPT !.filed = Append(@, [ip |-> ip, reason |-> reason])]

flagSuspiciousIP(s, ip, reason) ==
    reportAbuse([s EXCEPT !.suspiciousIPs = @ \cup {ip}], ip, reason)

\* a wrong set is consulted for the ban
checkIPStatusWrongSet(s, ip) ==
    IF ip \in s.suspiciousIPs THEN "banned" ELSE "clean"

checkIPStatus(s, ip) ==
    IF ip \in s.bannedIPs THEN "banned"
    ELSE IF ip \in s.suspiciousIPs THEN "suspicious"
    ELSE "clean"

\* off by one: the cap itself is still admitted
ipLimitReachedLate(ipData) == Len(ipData.requests) > maxRequestsPerIP

ipLimitReached(ipData) == Len(ipData.requests) >= maxRequestsPerIP

failureCapReachedLate(ipData) == Len(ipData.failures) > maxFailedAttempts

failureCapReached(ipData) == Len(ipData.failures) >= maxFailedAttempts

domainLimitReachedLate(domainData) ==
    Len(domainData.requests) > maxRequestsPerDomain

domainLimitReached(domainData) == Len(domainData.requests) >= maxRequestsPerDomain

\* checkRateLimit(ip, domain): [s |-> the tables afterwards, allowed, why,
\* resetTime |-> whether the result carries a resetTime]
checkRateLimit(s, ip, domain) ==
    LET tracked == TrackIp(s.ipTracker, ip)
        ipData == [requests |-> InWindow(tracked[ip].requests, now),
                   failures |-> InWindow(tracked[ip].failures, now)]
        s1 == [s EXCEPT !.ipTracker = [tracked EXCEPT ![ip] = ipData]]
        domains1 == TrackDomain(s.domainTracker, domain)
        domainData == [requests |-> InWindow(domains1[domain].requests, now)]
        s2 == [s1 EXCEPT !.domainTracker = [domains1 EXCEPT ![domain] = domainData]]
    IN
    IF ipLimitReached(ipData)
    THEN [s |-> flagSuspiciousIP(s1, ip, "Rate limit exceeded"),
          allowed |-> FALSE, why |-> "ip", resetTime |-> TRUE]
    ELSE IF failureCapReached(ipData)
    THEN [s |-> [s1 EXCEPT !.bannedIPs = @ \cup {ip}],
          allowed |-> FALSE, why |-> "failures", resetTime |-> FALSE]
    ELSE IF domain # NoDomain
    THEN IF domainLimitReached(domainData)
         THEN [s |-> s2, allowed |-> FALSE, why |-> "domain", resetTime |-> FALSE]
         ELSE [s |-> s2, allowed |-> TRUE, why |-> "ok", resetTime |-> FALSE]
    ELSE [s |-> s1, allowed |-> TRUE, why |-> "ok", resetTime |-> FALSE]

recordRequest(s, ip, domain) ==
    LET tracked == TrackIp(s.ipTracker, ip)
        s1 == [s EXCEPT !.ipTracker =
                 [tracked EXCEPT ![ip].requests = Append(@, now)]]
        domains1 == TrackDomain(s.domainTracker, domain)
    IN
    IF domain # NoDomain
    THEN [s1 EXCEPT !.domainTracker =
            [domains1 EXCEPT ![domain].requests = Append(@, now)]]
    ELSE s1

\* the history of blacklist failures has an entry per ip on first use
TrackHistory(h, ip) == IF ip \in DOMAIN h THEN h ELSE h @@ (ip :> <<>>)

\* the reasons the handlers pass to recordFailure, and those among them
\* for which reason.includes('blacklist') || reason.includes('Blacklisted')
Reasons ==
    {"Rate limit exceeded", "Missing URL", "Invalid URL format",
     "Blacklisted: Domain in blacklist",
     "Blacklisted: Parent domain in blacklist", "Blocked by robots.txt",
     "Scraping failed", "Server error"}

namesBlacklist(reason) ==
    reason \in {"Blacklisted: Domain in blacklist",
                "Blacklisted: Parent domain in blacklist"}

blacklistBanDueLate(failures) == Len(failures) > maxBlacklistAttempts

blacklistBanDue(failures) == Len(failures) >= maxBlacklistAttempts

recordFailure(s, ip, reason) ==
    LET tracked == TrackIp(s.ipTracker, ip)
        pushed == [tracked EXCEPT ![ip].failures = Append(@, now)]
        s1 == [s EXCEPT !.ipTracker = pushed,
                        !.blacklistFailures =
                            IF namesBlacklist(reason)
                            THEN [TrackHistory(@, ip) EXCEPT ![ip] = Append(@, now)]
                            ELSE @]
    IN
    IF namesBlacklist(reason) /\ blacklistBanDue(InWindow(pushed[ip].failures, now))
    THEN reportAbuse([s1 EXCEPT !.bannedIPs = @ \cup {ip}], ip,
                     "Multiple blacklist bypass attempts")
    ELSE s1

banIP(s, ip) ==
    reportAbuse([s EXCEPT !.bannedIPs = @ \cup {ip}], ip, "Manual ban")

\* the suspicious flag survives the unban
unbanIPKeepsFlag(s, ip) == [s EXCEPT !.bannedIPs = @ \ {ip}]

unbanIP(s, ip) ==
    [s EXCEPT !.bannedIPs = @ \ {ip}, !.suspiciousIPs = @ \ {ip}]

\* the entry at the boundary is kept
AfterInclusive(times, cutoff) == SelectSeq(times, LAMBDA time : time >= cutoff)

\* data.requests.filter(time => time > cutoff)
After(times, cutoff) == SelectSeq(times, LAMBDA time : time > cutoff)

cleanOldEntries(s) ==
    LET cutoff == now - windowMs
        ips == [ip \in DOMAIN s.ipTracker |->
                  [requests |-> After(s.ipTracker[ip].requests, cutoff),
                   failures |-> After(s.ipTracker[ip].failures, cutoff)]]
        doms == [d \in DOMAIN s.domainTracker |->
                  [requests |-> After(s.domainTracker[d].requests, cutoff)]]
        keptIps == {ip \in DOMAIN ips : ips[ip] # NewIpData}
        keptDoms == {d \in DOMAIN doms : doms[d].requests # <<>>}
    IN
    [s EXCEPT !.ipTracker = [ip \in keptIps |-> ips[ip]],
              !.domainTracker = [d \in keptDoms |-> doms[d]]]

---------------------------------------------------------------------------
(* The incident ledger: reportAbuse after its first await *)

maxReports == 1000

\* the tables of s become the system's; every reportAbuse call of the step
\* starts a task that will read the file; reports are numbered up to limit
CommitUpTo(s, limit) ==
    /\ nextReport + Len(s.filed) - 1 <= limit
    /\ ipTracker' = s.ipTracker
    /\ domainTracker' = s.domainTracker
    /\ suspiciousIPs' = s.suspiciousIPs
    /\ bannedIPs' = s.bannedIPs
    /\ blacklistFailures' = s.blacklistFailures
    /\ reportTasks' = reportTasks @@
          [i \in nextReport..(nextReport + Len(s.filed) - 1) |->
              [report |-> [id |-> i, ip |-> s.filed[i - nextReport + 1].ip,
                           reason |-> s.filed[i - nextReport + 1].reason],
               phase |-> "read", reports |-> <<>>]]
    /\ nextReport' = nextReport + Len(s.filed)
    /\ UNCHANGED abuseFile

Commit(s) == CommitUpTo(s, MaxReports)

\* reports.slice(-1000) when reports.length > 1000
KeepLast(reports) ==
    IF Len(reports) > maxReports
    THEN SubSeq(reports, Len(reports) - maxReports + 1, Len(reports))
    ELSE reports

\* lines 196-207: the file has been read; push, trim, start the write
ReportRead(t) ==
    /\ t \in DOMAIN reportTasks
    /\ reportTasks[t].phase = "read"
    /\ reportTasks' = [reportTasks EXCEPT
          ![t].phase = "write",
          ![t].reports = KeepLast(Append(abuseFile, reportTasks[t].report))]
    /\ UNCHANGED <<now, robotVars, desktopVars, scraperVars, creditVars, abuseVars, abuseFile, nextReport, req>>

\* line 209: the write reaches the file
ReportWrite(t) ==
    /\ t \in DOMAIN reportTasks
    /\ reportTasks[t].phase = "write"
    /\ abuseFile' = reportTasks[t].reports
    /\ reportTasks' = [u \in DOMAIN reportTasks \ {t} |-> reportTasks[u]]
    /\ UNCHANGED <<now, robotVars, desktopVars, scraperVars, creditVars, abuseVars, nextReport, req>>

---------------------------------------------------------------------------
(* blacklist-manager: the blacklist test of validateUrl *)

\* the entries of staticBlacklist that the hosts above can match
staticBlacklist == {HostXCom, HostTiktok}

\* the first characters of the labels of host
LabelStarts(host) ==
    {1} \cup {i \in 2..Len(host) : host[i - 1] = "."}

\* parts.slice(i).join('.') for i < parts.length - 1
ParentDomains(host) ==
    {SubSeq(host, i, Len(host)) : i \in
        {j \in LabelStarts(host) : \E k \in j..Len(host) : host[k] = "."}}

\* the blacklist is tested as the restricted domains of POST /scrape are
isBlacklistedBySubstring(url) ==
    \/ url.kind = "bad"
    \/ \E entry \in staticBlacklist : includes(hostname(url), entry)

isBlacklisted(url) ==
    \/ url.kind = "bad"
    \/ hostname(url) \in staticBlacklist
    \/ \E parent \in ParentDomains(hostname(url)) : parent \in staticBlacklist

\* validateUrl(url): the reason of the denial, or "URL validated"; whether
\* robots.txt allows the path is the remote site's answer
validateUrl(url, robotsAllowed) ==
    IF url.kind = "bad" THEN "Invalid URL format"
    ELSE IF isBlacklisted(url)
    THEN IF hostname(url) \in staticBlacklist
         THEN "Blacklisted: Domain in blacklist"
         ELSE "Blacklisted: Parent domain in blacklist"
    ELSE IF ~ robotsAllowed THEN "Blocked by robots.txt"
    ELSE "URL validated"

---------------------------------------------------------------------------
(* Request frames *)

IdleReq ==
    [pc |-> "idle", endpoint |-> "none", ip |-> "none", url |-> NoUrl,
     accessToken |-> 0, tier |-> "basic", steps |-> <<>>, deniedAt |-> "none",
     status |-> 0, outcome |-> "none", charged |-> FALSE, refunds |-> 0,
     restored |-> FALSE, creditRefunded |-> FALSE, why |-> "none",
     resetTime |-> FALSE, recorded |-> <<>>, error |-> "none",
     reason |-> "none", restricted |-> <<>>,
     remaining |-> [kind |-> "none", n |-> 0]]

\* requests are numbered in order of arrival
Arrives(r) ==
    /\ req[r].pc = "idle"
    /\ IF r = 1 THEN TRUE ELSE req[r - 1].pc # "idle"

\* the response ends the handler: its frame keeps what the properties below
\* read of the finished request (the url is not among it; restricted is the
\* host that POST /scrape has rejected as invalid or restricted)
Respond(r, frame, code) ==
    [req EXCEPT ![r] = [frame EXCEPT !.pc = "done", !.status = code,
                                     !.url = NoUrl]]

---------------------------------------------------------------------------
(* index.js: POST /scrape *)

\* the credit is consumed before the URL is checked
ScrapeStartConsumeFirst(r, ip, url, accessToken, tier) ==
    /\ Arrives(r)
    /\ LET f0 == [IdleReq EXCEPT !.endpoint = "scrape", !.ip = ip, !.url = url,
                    !.accessToken = accessToken, !.tier = tier]
           ok == consumeResult(accessToken, tier) = "valid"
       IN
       IF url.kind = "none" \/ accessToken = 0
       THEN /\ req' = Respond(r, [f0 EXCEPT !.deniedAt = "input"], 400)
            /\ UNCHANGED tokens
       ELSE /\ tokens' = validateAndConsumeCredit(accessToken, tier)
            /\ IF ~ ok
               THEN req' = Respond(r, [f0 EXCEPT !.steps = <<"credit">>,
                                                 !.deniedAt = "credit"], 402)
               ELSE IF ~ isValidUrl(url)
               THEN req' = Respond(r, [f0 EXCEPT !.steps = <<"credit", "legality">>,
                                                 !.charged = TRUE,
                                                 !.deniedAt = "legality"], 400)
               ELSE req' = [req EXCEPT ![r] =
                              [f0 EXCEPT !.pc = "extracting", !.charged = TRUE,
                                  !.steps = <<"credit", "legality", "extraction">>]]
    /\ UNCHANGED <<now, robotVars, desktopVars, scraperVars, nextToken, abuseVars, ledgerVars>>

\* lines 193-225: from the arrival of the request to the await of
\* scrapeEnhanced
ScrapeStart(r, ip, url, accessToken, tier) ==
    /\ Arrives(r)
    /\ LET f0 == [IdleReq EXCEPT !.endpoint = "scrape", !.ip = ip, !.url = url,
                    !.accessToken = accessToken, !.tier = tier]
       IN
       IF url.kind = "none" \/ accessToken = 0
       THEN /\ req' = Respond(r, [f0 EXCEPT !.deniedAt = "input"], 400)
            /\ UNCHANGED tokens
       ELSE IF ~ isValidUrl(url)
       THEN /\ req' = Respond(r, [f0 EXCEPT !.steps = <<"legality">>,
                                            !.restricted = url.host,
                                            !.deniedAt = "legality"], 400)
            /\ UNCHANGED tokens
       ELSE /\ tokens' = validateAndConsumeCredit(accessToken, tier)
            /\ IF consumeResult(accessToken, tier) # "valid"
               THEN req' = Respond(r, [f0 EXCEPT !.steps = <<"legality", "credit">>,
                                                 !.deniedAt = "credit",
                                                 !.error = consumeResult(accessToken, tier),
                                                 !.remaining =
                                                     IF consumeResult(accessToken, tier)
                                                            = "insufficient"
                                                     THEN remainingCredits(tokens, accessToken)
                                                     ELSE @], 402)
               ELSE req' = [req EXCEPT ![r] =
                              [f0 EXCEPT !.pc = "extracting", !.charged = TRUE,
                                  !.remaining = remainingCredits(tokens', accessToken),
                                  !.steps = <<"legality", "credit", "extraction">>]]
    /\ UNCHANGED <<now, robotVars, desktopVars, scraperVars, nextToken, abuseVars, ledgerVars>>

\* lines 227-264: scrapeEnhanced has returned a result or thrown
ScrapeSettle(r, outcome) ==
    /\ req[r].pc = "extracting"
    /\ req[r].endpoint = "scrape"
    /\ LET f == req[r]
           f1 == [f EXCEPT !.outcome = outcome, !.steps = Append(@, "settle")]
       IN
       IF outcome = "success"
       THEN /\ req' = Respond(r, f1, 200)
            /\ UNCHANGED tokens
       ELSE /\ tokens' = refundCredit(f.accessToken, f.tier)
            /\ req' = Respond(r,
                 [f1 EXCEPT
                    !.creditRefunded = TRUE,
                    !.refunds = IF f.accessToken \in DOMAIN tokens THEN @ + 1 ELSE @,
                    !.restored =
                        /\ f.accessToken \in DOMAIN tokens
                        /\ tokens'[f.accessToken].usedCredits.kind = "num"
                        /\ JsPlus(tokens'[f.accessToken].usedCredits,
                                  creditsNeeded(f.tier))
                              = tokens[f.accessToken].usedCredits],
                 500)
    /\ UNCHANGED <<now, robotVars, desktopVars, scraperVars, nextToken, abuseVars, ledgerVars>>

Outcomes == {"success", "failure", "threw"}

---------------------------------------------------------------------------
(* index.js: POST /test-scrape *)

\* lines 428-466: from the arrival of the request to the await of
\* validateUrlEnhanced
TestStart(r, ip, url) ==
    /\ Arrives(r)
    /\ LET f0 == [IdleReq EXCEPT !.endpoint = "test", !.ip = ip, !.url = url]
           domain == IF url.kind = "none" THEN NoDomain ELSE extractDomain(url)
           rate == checkRateLimit(AbuseState, ip, domain)
       IN
       IF checkIPStatus(AbuseState, ip) = "banned"
       THEN /\ req' = Respond(r, [f0 EXCEPT !.steps = <<"ban">>,
                                            !.deniedAt = "ban"], 403)
            /\ UNCHANGED <<abuseVars, ledgerVars>>
       ELSE IF ~ rate.allowed
       THEN /\ Commit(recordFailure(rate.s, ip, "Rate limit exceeded"))
            /\ req' = Respond(r, [f0 EXCEPT !.steps = <<"ban", "rate">>,
                                            !.deniedAt = "rate",
                                            !.recorded = <<"failure">>,
                                            !.why = rate.why,
                                            !.resetTime = rate.resetTime], 429)
       ELSE IF url.kind = "none"
       THEN /\ Commit(recordFailure(rate.s, ip, "Missing URL"))
            /\ req' = Respond(r, [f0 EXCEPT !.steps = <<"ban", "rate">>,
                                            !.recorded = <<"failure">>,
                                            !.deniedAt = "input"], 400)
       ELSE /\ Commit(rate.s)
            /\ req' = [req EXCEPT ![r] =
                          [f0 EXCEPT !.pc = "validating",
                                     !.steps = <<"ban", "rate", "legality">>]]
    /\ UNCHANGED <<now, robotVars, desktopVars, scraperVars, creditVars>>

\* lines 466-488: validateUrlEnhanced has answered
TestValidated(r, robotsAllowed) ==
    /\ req[r].pc = "validating"
    /\ LET f == req[r]
           reason == validateUrl(f.url, robotsAllowed)
       IN
       IF reason # "URL validated"
       THEN /\ Commit(recordFailure(AbuseState, f.ip, reason))
            /\ req' = Respond(r, [f EXCEPT !.deniedAt = "legality",
                                           !.reason = reason,
                                           !.recorded = <<"failure">>], 400)
       ELSE /\ Commit(recordRequest(AbuseState, f.ip, extractDomain(f.url)))
            /\ req' = [req EXCEPT ![r] =
                          [f EXCEPT !.pc = "extracting",
                                    !.reason = reason,
                                    !.recorded = <<"request">>,
                                    !.steps = Append(@, "extraction")]]
    /\ UNCHANGED <<now, robotVars, desktopVars, scraperVars, creditVars>>

\* lines 488-497 and 526-532: scrapeEnhanced has returned a result or thrown;
\* the handler awaits logRequest
TestExtracted(r, outcome) ==
    /\ req[r].pc = "extracting"
    /\ req[r].endpoint = "test"
    /\ IF outcome = "threw"
       THEN Commit(recordFailure(AbuseState, req[r].ip, "Server error"))
       ELSE UNCHANGED <<abuseVars, ledgerVars>>
    /\ req' = [req EXCEPT ![r].pc = "logging", ![r].outcome = outcome,
                          ![r].recorded =
                              IF outcome = "threw" THEN Append(@, "failure") ELSE @,
                          ![r].steps = Append(@, "settle")]
    /\ UNCHANGED <<now, robotVars, desktopVars, scraperVars, creditVars>>

\* a handler that extracts again after a failed extraction
TestRespondRetries(r) ==
    /\ req[r].pc = "logging"
    /\ IF req[r].outcome = "failure"
       THEN /\ Commit(recordFailure(AbuseState, req[r].ip, "Scraping failed"))
            /\ req' = [req EXCEPT ![r].pc = "extracting",
                                  ![r].recorded = Append(@, "failure"),
                                  ![r].steps = Append(@, "extraction")]
       ELSE /\ UNCHANGED <<abuseVars, ledgerVars>>
            /\ req' = Respond(r, req[r],
                              IF req[r].outcome = "success" THEN 200 ELSE 500)
    /\ UNCHANGED <<now, robotVars, desktopVars, scraperVars, creditVars>>

\* lines 499-524 and 534-538: logRequest has finished
TestRespond(r) ==
    /\ req[r].pc = "logging"
    /\ IF req[r].outcome = "failure"
       THEN Commit(recordFailure(AbuseState, req[r].ip, "Scraping failed"))
       ELSE UNCHANGED <<abuseVars, ledgerVars>>
    /\ req' = Respond(r, [req[r] EXCEPT !.recorded =
                              IF req[r].outcome = "failure"
                              THEN Append(@, "failure") ELSE @],
                       IF req[r].outcome = "success" THEN 200 ELSE 500)
    /\ UNCHANGED <<now, robotVars, desktopVars, scraperVars, creditVars>>

---------------------------------------------------------------------------
(* index.js: the administrative routes; the compaction timer *)

\* POST /admin/ban-ip
AdminBan(ip) ==
    /\ Commit(banIP(AbuseState, ip))
    /\ UNCHANGED <<now, robotVars, desktopVars, scraperVars, creditVars, req>>

\* POST /admin/unban-ip
AdminUnban(ip) ==
    /\ Commit(unbanIP(AbuseState, ip))
    /\ UNCHANGED <<now, robotVars, desktopVars, scraperVars, creditVars, req>>

\* setInterval(() => this.cleanOldEntries(), 5 * 60 * 1000)
Compaction ==
    /\ Commit(cleanOldEntries(AbuseState))
    /\ UNCHANGED <<now, robotVars, desktopVars, scraperVars, creditVars, req>>

---------------------------------------------------------------------------
(* Time *)

AdvanceClock(step, limit) ==
    /\ now + step <= limit * step
    /\ now' = now + step
    /\ UNCHANGED <<creditVars, abuseVars, ledgerVars, req, robotVars, desktopVars, scraperVars>>

---------------------------------------------------------------------------
(* The credit ledger under POST /scrape *)

\* the step of the clock in this specification
TwentyDays == 20 * 24 * 60 * 60

InitCredit ==
    /\ now = 0
    /\ tokens = <<>>
    /\ nextToken = 1
    /\ ipTracker = <<>>
    /\ domainTracker = <<>>
    /\ suspiciousIPs = {}
    /\ bannedIPs = {}
    /\ abuseFile = <<>>
    /\ reportTasks = <<>>
    /\ nextReport = 1
    /\ blacklistFailures = <<>>
    /\ NoRobots
    /\ NoScraper
    /\ NoDesktop
    /\ req = [r \in Reqs |-> IdleReq]

IssueToken == \E tier \in PricingTiers : generateAccessToken(tier)

PaidStart ==
    \E r \in Reqs, url \in {Url(HostAIo), Url(HostTiktok)},
       accessToken \in 1..(MaxTokens + 1), tier \in TierNames :
        ScrapeStart(r, "ip1", url, accessToken, tier)

PaidSettle == \E r \in Reqs, outcome \in Outcomes : ScrapeSettle(r, outcome)

CreditClock == AdvanceClock(TwentyDays, MaxClock)

NextCredit == IssueToken \/ PaidStart \/ PaidSettle \/ CreditClock

SpecCredit == InitCredit /\ [][NextCredit]_vars

---------------------------------------------------------------------------
(* The admission gateway: both scrape endpoints, the administrative routes *)
(* and the compaction timer, for one caller.  The run starts half an hour  *)
(* after the caller's earlier traffic, which Init lays down as the code    *)
(* would have left it:                                                      *)
(*   nReq requests admitted and recorded at time 0 (59 for a.io, the rest  *)
(*     for b.io), then                                                      *)
(*   nFail requests failed at time HalfHour: with nReq = 0 they passed the *)
(*     rate check and failed on a missing URL or (viaBlacklist, fewer than *)
(*     3, or the caller would be banned) on x.com; with the request        *)
(*     window full they were denied by the rate check, which flagged the   *)
(*     caller and filed one report each.                                   *)

HalfHour == 30 * 60

GateReqs == 1..MaxGateReq

Times(n, t) == [i \in 1..n |-> t]

Caller == "ip1"

InitGateFrom(nReq, nFail, viaBlacklist) ==
    /\ now = HalfHour
    /\ tokens = (1 :> [tier |-> "basic", credits |-> Num(getCreditsForTier("basic")),
                       usedCredits |-> Num(0), createdAt |-> 0,
                       expiresAt |-> ThirtyDays])
    /\ nextToken = 2
    /\ ipTracker = IF nReq = 0 /\ nFail = 0 THEN <<>>
                   ELSE (Caller :> [requests |-> Times(nReq, 0),
                                    failures |-> Times(nFail, HalfHour)])
    /\ domainTracker =
          IF viaBlacklist THEN (HostXCom :> [requests |-> <<>>])
          ELSE IF nReq = 0 THEN <<>>
          ELSE IF nReq < maxRequestsPerDomain
          THEN (HostAIo :> [requests |-> Times(nReq, 0)])
          ELSE (HostAIo :> [requests |-> Times(maxRequestsPerDomain - 1, 0)])
               @@ (HostBIo :> [requests |->
                      Times(nReq - (maxRequestsPerDomain - 1), 0)])
    /\ suspiciousIPs = IF nReq > 0 /\ nFail > 0 THEN {Caller} ELSE {}
    /\ bannedIPs = {}
    /\ abuseFile = IF nReq > 0
                   THEN [i \in 1..nFail |->
                           [id |-> i - nFail, ip |-> Caller,
                            reason |-> "Rate limit exceeded"]]
                   ELSE <<>>
    /\ reportTasks = <<>>
    /\ nextReport = 1
    /\ blacklistFailures = IF viaBlacklist THEN (Caller :> Times(nFail, HalfHour))
                           ELSE <<>>
    /\ NoRobots
    /\ NoScraper
    /\ NoDesktop
    /\ req = [r \in Reqs |-> IdleReq]

\* the gateway specification starts from a caller without history
InitGate == InitGateFrom(0, 0, FALSE)

FreeUrls == {NoUrl, BadUrl, Url(HostAIo), Url(HostBIo), Url(HostXCom)}

FreeStart == \E r \in GateReqs, url \in FreeUrls : TestStart(r, Caller, url)

FreeValidated ==
    \E r \in GateReqs, robotsAllowed \in BOOLEAN : TestValidated(r, robotsAllowed)

FreeExtracted == \E r \in GateReqs, outcome \in Outcomes : TestExtracted(r, outcome)

FreeRespond == \E r \in GateReqs : TestRespond(r)

GatePaidStart ==
    \E r \in GateReqs, url \in {NoUrl, Url(HostAIo), Url(HostTiktok)},
       accessToken \in {1, 2} :
        ScrapeStart(r, Caller, url, accessToken, "basic")

GatePaidSettle == \E r \in GateReqs, outcome \in Outcomes : ScrapeSettle(r, outcome)

Ban == AdminBan(Caller)

Unban == AdminUnban(Caller)

ReportReads == \E t \in 1..MaxReports : ReportRead(t)

ReportWrites == \E t \in 1..MaxReports : ReportWrite(t)

GateClock == AdvanceClock(HalfHour, MaxGateTicks)

NextGate ==
    \/ FreeStart \/ FreeValidated \/ FreeExtracted \/ FreeRespond
    \/ GatePaidStart \/ GatePaidSettle
    \/ Ban \/ Unban \/ Compaction
    \/ ReportReads \/ ReportWrites
    \/ GateClock

SpecGate == InitGate /\ [][NextGate]_vars

---------------------------------------------------------------------------
(* The rate limiter under POST /test-scrape, from each of the histories    *)
(* described above.                                                         *)

InitRate ==
    \E nReq \in {0, maxRequestsPerDomain - 1, maxRequestsPerIP},
       nFail \in {0, maxBlacklistAttempts - 1, maxFailedAttempts - 1},
       viaBlacklist \in BOOLEAN :
        /\ viaBlacklist => (nReq = 0 /\ nFail = maxBlacklistAttempts - 1)
        /\ nReq = maxRequestsPerDomain - 1 => nFail = 0
        /\ InitGateFrom(nReq, nFail, viaBlacklist)

RateClock == AdvanceClock(HalfHour, MaxTicks)

NextRate ==
    \/ FreeStart \/ FreeValidated \/ FreeExtracted \/ FreeRespond
    \/ Ban \/ Unban \/ Compaction
    \/ ReportReads \/ ReportWrites
    \/ RateClock

SpecRate == InitRate /\ [][NextRate]_vars


---------------------------------------------------------------------------
(* Claims about the credit ledger, checked under SpecCredit *)

\* no handler is between its consume and its settle
Quiescent == \A r \in Reqs : req[r].pc \in {"idle", "done"}

\* the requests whose consume of tier at token t succeeded
Charged(t, tier) ==
    {r \in Reqs : req[r].charged /\ req[r].accessToken = t /\ req[r].tier = tier}

\* no refund has been applied to token t
NoRefundOn(t) == \A r \in Reqs : req[r].accessToken = t => req[r].refunds = 0

\* C1: no oversell.  For every token T and every tier with a cost,
\* totalCredits(T) being k * cost(tier), at most k consume(T, tier) calls
\* succeed as long as no refund is applied to T.
C1_NoOversell ==
    \A t \in DOMAIN tokens : \A tier \in TierNames :
        (creditsNeeded(tier).kind = "num" /\ NoRefundOn(t))
            => Cardinality(Charged(t, tier)) * creditsNeeded(tier).n
                  <= tokens[t].credits.n

\* C2: at every quiescent point, 0 <= usedCredits(T) <= totalCredits(T) for
\* every token T (usedCredits is a number in that range).
C2_UsedWithinTotal ==
    Quiescent =>
        \A t \in DOMAIN tokens :
            /\ tokens[t].usedCredits.kind = "num"
            /\ 0 <= tokens[t].usedCredits.n
            /\ tokens[t].usedCredits.n <= tokens[t].credits.n

\* C3: every request whose consume succeeded and whose extraction failed or
\* threw has had usedCredits decremented by cost(tier) exactly once, which
\* undoes its own increment.
C3_RefundExactlyOnce ==
    \A r \in Reqs :
        (req[r].pc = "done" /\ req[r].charged /\ req[r].outcome # "success")
            => (req[r].refunds = 1 /\ req[r].restored)

---------------------------------------------------------------------------
(* Claims about the admission gateway, checked under SpecGate *)

StepRank(step) ==
    CASE step = "ban" -> 1
      [] step = "rate" -> 2
      [] step = "legality" -> 3
      [] step = "credit" -> 4
      [] step = "extraction" -> 5
      [] step = "settle" -> 6

\* the rank of the step that denied; a missing field is found after the
\* rate admission and before the legality check
DenialRank(d) ==
    CASE d = "ban" -> 1
      [] d = "rate" -> 2
      [] d = "input" -> 2
      [] d = "legality" -> 3
      [] d = "credit" -> 4

HasStep(r, step) == \E i \in 1..Len(req[r].steps) : req[r].steps[i] = step

C5_ConsumeOnlyAfterAdmission ==
    \A r \in GateReqs :
        (req[r].charged \/ HasStep(r, "extraction"))
            => /\ Len(req[r].steps) >= 2
               /\ req[r].steps[1] = "ban"
               /\ req[r].steps[2] = "rate"

\* request r arrives in this step
Arriving(r) == req[r].pc = "idle" /\ req'[r].pc # "idle"

---------------------------------------------------------------------------
(* Claims about the rate limiter, checked under SpecRate *)

RequestsInWindow(ip) ==
    IF ip \in DOMAIN ipTracker THEN Len(InWindow(ipTracker[ip].requests, now)) ELSE 0

FailuresInWindow(ip) ==
    IF ip \in DOMAIN ipTracker THEN Len(InWindow(ipTracker[ip].failures, now)) ELSE 0

\* no domain is at its cap
DomainsBelowCap ==
    \A d \in DOMAIN domainTracker :
        Len(InWindow(domainTracker[d].requests, now)) < maxRequestsPerDomain

\* request r arrives at POST /test-scrape from a caller that is not banned
Checked(r) ==
    Arriving(r) /\ req'[r].endpoint = "test" /\ req'[r].ip \notin bannedIPs

\* the caller of the arriving request r was denied at its request cap before
DeniedAtCapBefore(r) ==
    \E q \in GateReqs : req[q].why = "ip" /\ req[q].ip = req'[r].ip

\* with 100 requests in the window the next one is denied with 429
DeniedAtCap(r) ==
    (Checked(r) /\ RequestsInWindow(req'[r].ip) >= maxRequestsPerIP)
        => /\ req'[r].status = 429
           /\ req'[r].why = "ip"
           /\ req'[r].resetTime

\* C6 as claimed: the request after 100 in the window is denied, and once
\* the window has slid the caller is admitted again whatever number of
\* denied attempts it made.
C6_ResumesWhateverDenied ==
    [][\A r \in GateReqs :
          /\ DeniedAtCap(r)
          /\ (Checked(r) /\ DeniedAtCapBefore(r) /\ DomainsBelowCap
                /\ RequestsInWindow(req'[r].ip) < maxRequestsPerIP)
                => req'[r].deniedAt # "rate"]_vars

\* C6 as amended: the request after 100 in the window is denied, and once
\* the window has slid the caller is admitted again if fewer than 10
\* failures (denied attempts included) lie in its trailing hour.
C6_ResumesBelowFailureCap ==
    [][\A r \in GateReqs :
          /\ DeniedAtCap(r)
          /\ (Checked(r) /\ DomainsBelowCap
                /\ RequestsInWindow(req'[r].ip) < maxRequestsPerIP
                /\ FailuresInWindow(req'[r].ip) < maxFailedAttempts)
                => req'[r].deniedAt # "rate"]_vars

\* a request was denied at the cap and a later one of the caller, after the
\* window has slid, was admitted
C6_Witness ==
    \E q, r \in GateReqs :
        /\ q < r
        /\ req[q].why = "ip" /\ req[q].status = 429
        /\ req[r].pc # "idle" /\ req[r].deniedAt \notin {"ban", "rate"}

BlacklistFailuresInWindow(h, ip, t) ==
    IF ip \in DOMAIN h THEN Len(InWindow(h[ip], t)) ELSE 0

\* C7: the failure that brings a caller to 3 blacklist failures within the
\* hour bans it in the same step, and the ban check denies every request of
\* a banned caller with 403 whatever its windows hold.
C7_ThirdBlacklistFailureBans ==
    [][/\ (/\ blacklistFailures' # blacklistFailures
           /\ BlacklistFailuresInWindow(blacklistFailures', Caller, now)
                 >= maxBlacklistAttempts)
          => Caller \in bannedIPs'
       /\ \A r \in GateReqs :
            (Arriving(r) /\ req'[r].endpoint = "test" /\ req'[r].ip \in bannedIPs)
                => (req'[r].status = 403 /\ req'[r].deniedAt = "ban")]_vars

\* the caller was banned by its third blacklist failure and then denied
C7_Witness ==
    /\ BlacklistFailuresInWindow(blacklistFailures, Caller, now) = maxBlacklistAttempts
    /\ Caller \in bannedIPs
    /\ \E r \in GateReqs : req[r].status = 403

\* C8 as claimed: a caller with 10 failures in its trailing hour is banned.
C8_TenFailuresMeansBanned ==
    \A ip \in DOMAIN ipTracker :
        FailuresInWindow(ip) >= maxFailedAttempts => ip \in bannedIPs

\* C8 as amended: the first rate admission that finds 10 failures in the
\* caller's trailing hour, the request window being below its cap, bans the
\* caller; and only the administrative unban removes a ban.
C8_BannedAtNextCheck ==
    [][/\ \A r \in GateReqs :
            (Checked(r) /\ FailuresInWindow(req'[r].ip) >= maxFailedAttempts
               /\ RequestsInWindow(req'[r].ip) < maxRequestsPerIP)
                => (req'[r].ip \in bannedIPs' /\ req'[r].status = 429)
       /\ (Caller \in bannedIPs /\ Caller \notin bannedIPs') => AdminUnban(Caller)]_vars

\* the caller was banned at the failure cap and is still banned when its
\* failures have left the window
C8_Witness ==
    /\ \E r \in GateReqs : req[r].why = "failures"
    /\ Caller \in bannedIPs
    /\ FailuresInWindow(Caller) = 0

StatusRank(status) ==
    CASE status = "clean" -> 0
      [] status = "suspicious" -> 1
      [] status = "banned" -> 2

\* the status of ip after the step
checkIPStatusNext(ip) ==
    checkIPStatus([suspiciousIPs |-> suspiciousIPs', bannedIPs |-> bannedIPs'], ip)

\* C9: the status of a caller never goes down except by the administrative
\* unban, which leaves the caller clean.
C9_OnlyEscalates ==
    [][/\ StatusRank(checkIPStatusNext(Caller))
              < StatusRank(checkIPStatus(AbuseState, Caller))
          => AdminUnban(Caller)
       /\ AdminUnban(Caller) => checkIPStatusNext(Caller) = "clean"]_vars

\* a caller that was banned at its failure cap is clean again
C9_Witness ==
    /\ checkIPStatus(AbuseState, Caller) = "clean"
    /\ \E r \in GateReqs : req[r].why = "failures" /\ req[r].ip = Caller

\* the domains a rate-admission check is asked about
CheckedDomains == {NoDomain, HostAIo, HostBIo}

\* C11: a rate-admission check leaves the tracked keys, every request and
\* failure window, the suspicious set, the banned set and the incident
\* ledger as they were, whether it admits or denies.
C11_AdmitLeavesStateUnchanged ==
    \A domain \in CheckedDomains :
        checkRateLimit(AbuseState, Caller, domain).s = AbuseState

\* request r has passed the ban check of POST /test-scrape
PassedBanCheck(r) ==
    /\ req[r].endpoint = "test"
    /\ req[r].pc # "idle"
    /\ req[r].deniedAt # "ban"

\* C12: a request that has passed the ban check records at most one of
\* recordRequest / recordFailure, exactly one by the time it is answered,
\* and records nothing while its extraction is still running.
C12_OneRecordAfterOutcome ==
    \A r \in GateReqs :
        PassedBanCheck(r) =>
            /\ Len(req[r].recorded) <= 1
            /\ req[r].pc = "done" => Len(req[r].recorded) = 1
            /\ req[r].pc = "extracting" => req[r].recorded = <<>>

---------------------------------------------------------------------------
(* Claims about the settlement of paid requests, checked under SpecCredit *)

\* C13: whenever a response carries creditRefunded = true, the handler has
\* decremented usedCredits of the request's account by the cost of the tier,
\* once.
C13_RefundStatementTrue ==
    \A r \in Reqs :
        req[r].creditRefunded => (req[r].refunds = 1 /\ req[r].restored)

\* C14: a request whose extraction threw is answered with 500, and the
\* credit it consumed has been given back to its account.
C14_ThrownFaultRefunded ==
    \A r \in Reqs :
        (req[r].pc = "done" /\ req[r].outcome = "threw")
            => /\ req[r].status = 500
               /\ req[r].charged => (req[r].refunds = 1 /\ req[r].restored)

\* request r arrives at POST /scrape, reaches the credit consume and is
\* denied there
ConsumeDenied(r) ==
    /\ Arriving(r)
    /\ req'[r].endpoint = "scrape"
    /\ \E i \in 1..Len(req'[r].steps) : req'[r].steps[i] = "credit"
    /\ consumeResult(req'[r].accessToken, req'[r].tier) # "valid"

\* C15: a request whose credit consume is denied is answered with 402, its
\* extraction is never started, and usedCredits of every account that
\* exists afterwards is what it was.
C15_DeniedConsumeChangesNothing ==
    [][\A r \in Reqs :
          ConsumeDenied(r) =>
              /\ req'[r].pc = "done"
              /\ req'[r].status = 402
              /\ \A i \in 1..Len(req'[r].steps) : req'[r].steps[i] # "extraction"
              /\ \A t \in DOMAIN tokens' :
                    /\ t \in DOMAIN tokens
                    /\ tokens'[t].usedCredits = tokens[t].usedCredits]_vars

\* a request was refused for insufficient credits on an account that had
\* been charged before
C15_Witness ==
    \E r \in Reqs :
        /\ req[r].status = 402
        /\ req[r].accessToken \in DOMAIN tokens
        /\ tokens[req[r].accessToken].usedCredits.kind = "num"
        /\ tokens[req[r].accessToken].usedCredits.n > 0
        /\ now <= tokens[req[r].accessToken].expiresAt

\* the cost the contract gives a tier: that of the cost table, and 1 for
\* every name outside it
ContractCost(tier) == IF tier \in PricingTiers THEN credits(tier).n ELSE 1

\* the tokens a request can present: those issued and one never issued
PresentedTokens == 1..(MaxTokens + 1)

\* C16: consume answers 'invalid' for an unknown token (and the balance
\* query finds nothing), 'expired' for a token past its expiresAt, whose
\* account is then gone, and 'insufficient' when the cost of the tier
\* exceeds totalCredits - usedCredits; in each case every surviving account
\* is left as it was.
C16_ConsumeFailureKinds ==
    \A accessToken \in PresentedTokens, tier \in TierNames :
        LET after == validateAndConsumeCredit(accessToken, tier)
            Survivors == \A t \in DOMAIN after : t \in DOMAIN tokens /\ after[t] = tokens[t]
        IN
        /\ accessToken \notin DOMAIN tokens =>
              /\ consumeResult(accessToken, tier) = "invalid"
              /\ getTokenInfo(accessToken) = "not-found"
              /\ Survivors
        /\ (accessToken \in DOMAIN tokens /\ now > tokens[accessToken].expiresAt) =>
              /\ consumeResult(accessToken, tier) = "expired"
              /\ accessToken \notin DOMAIN after
              /\ Survivors
        /\ (/\ accessToken \in DOMAIN tokens
            /\ now <= tokens[accessToken].expiresAt
            /\ tokens[accessToken].usedCredits.kind = "num"
            /\ ContractCost(tier) > tokens[accessToken].credits.n
                                       - tokens[accessToken].usedCredits.n) =>
              /\ consumeResult(accessToken, tier) = "insufficient"
              /\ Survivors

---------------------------------------------------------------------------
(* Sequential paid requests on one token: each request is answered before  *)
(* the next arrives, every extraction succeeds, and all name the same tier. *)

MaxCalls == 11

Calls == 1..MaxCalls

InitConsume ==
    /\ now = 0
    /\ tokens = <<>>
    /\ nextToken = 1
    /\ ipTracker = <<>>
    /\ domainTracker = <<>>
    /\ suspiciousIPs = {}
    /\ bannedIPs = {}
    /\ abuseFile = <<>>
    /\ reportTasks = <<>>
    /\ nextReport = 1
    /\ blacklistFailures = <<>>
    /\ NoRobots
    /\ NoScraper
    /\ NoDesktop
    /\ req = [r \in Calls |-> IdleReq]

NextCall ==
    \E r \in Calls, tier \in TierNames :
        /\ 1 \in DOMAIN tokens
        /\ IF r = 1 THEN TRUE
           ELSE req[r - 1].pc = "done" /\ req[r - 1].tier = tier
        /\ ScrapeStart(r, Caller, Url(HostAIo), 1, tier)

CallReturns == \E r \in Calls : ScrapeSettle(r, "success")

NextConsume == IssueToken \/ NextCall \/ CallReturns

SpecConsume == InitConsume /\ [][NextConsume]_vars

\* C17: on a fresh token with grant G, the r-th of a sequence of consume
\* calls for a tier of cost c succeeds with remaining = G - r * c as long as
\* r * c <= G, and every later call is refused for insufficient credits with
\* remaining = G mod c.
C17_ExactlyFloorConsumes ==
    \A r \in Calls :
        req[r].pc # "idle" =>
            LET G == tokens[1].credits.n
                c == ContractCost(req[r].tier)
            IN
            IF r * c <= G
            THEN req[r].deniedAt = "none" /\ req[r].remaining = Num(G - r * c)
            ELSE /\ req[r].status = 402
                 /\ req[r].error = "insufficient"
                 /\ req[r].remaining = Num(G % c)

---------------------------------------------------------------------------
(* Further claims about the rate limiter, checked under SpecRate *)

\* C18: every request denied by the rate admission has recorded a failure
\* for its caller and is answered with 429 and a resetTime, whichever limit
\* denied it.
C18_DenialCarriesResetTime ==
    \A r \in GateReqs :
        req[r].deniedAt = "rate" =>
            /\ req[r].status = 429
            /\ req[r].recorded = <<"failure">>
            /\ req[r].resetTime

DomainRequestsInWindow(domain) ==
    IF domain \in DOMAIN domainTracker
    THEN Len(InWindow(domainTracker[domain].requests, now))
    ELSE 0

\* C19: for a caller that is not banned and has fewer than 10 failures in
\* its window, the rate admission denies exactly when the caller has 100 or
\* more requests in its trailing hour or the target domain has 60 or more.
C19_CapsIndependent ==
    \A domain \in CheckedDomains :
        (Caller \notin bannedIPs /\ FailuresInWindow(Caller) < maxFailedAttempts)
            => (~ checkRateLimit(AbuseState, Caller, domain).allowed
                  <=> \/ RequestsInWindow(Caller) >= maxRequestsPerIP
                      \/ DomainRequestsInWindow(domain) >= maxRequestsPerDomain)

\* a request was denied at the domain's cap while its caller was below its
\* own; the caller is still admitted for another domain
C19_WitnessDomain ==
    /\ Caller \notin bannedIPs
    /\ FailuresInWindow(Caller) < maxFailedAttempts
    /\ \E r \in GateReqs : req[r].why = "domain" /\ req[r].status = 429
    /\ RequestsInWindow(Caller) < maxRequestsPerIP
    /\ DomainRequestsInWindow(HostAIo) = maxRequestsPerDomain
    /\ ~ checkRateLimit(AbuseState, Caller, HostAIo).allowed
    /\ checkRateLimit(AbuseState, Caller, HostBIo).allowed

---------------------------------------------------------------------------
(* The legality gate under POST /test-scrape, for hosts that match the     *)
(* blacklist exactly, through a parent domain, in upper case, or only as a  *)
(* substring.                                                               *)

LegalUrls ==
    {Url(HostAIo), Url(HostXCom), Url(HostSXCom), Url(HostAxCom),
     Url(HostXComIo), Url(HostUpperXCom)}

LegalStart == \E r \in GateReqs, url \in LegalUrls : TestStart(r, Caller, url)

NextLegality ==
    \/ LegalStart \/ FreeValidated \/ FreeExtracted \/ FreeRespond
    \/ GateClock

SpecLegality == InitGate /\ [][NextLegality]_vars

\* host ends with entry, and entry begins a label of host
IsDomainSuffix(entry, host) ==
    /\ Len(entry) < Len(host)
    /\ SubSeq(host, Len(host) - Len(entry) + 1, Len(host)) = entry
    /\ host[Len(host) - Len(entry)] = "."

\* the blacklist holds the lowercased host or a parent domain of it
ListedOrUnderListed(host) ==
    \E entry \in staticBlacklist :
        toLowerCase(host) = entry \/ IsDomainSuffix(entry, toLowerCase(host))

\* the validation of request r is answered in this step
Validated(r) == req[r].pc = "validating" /\ req'[r].pc # "validating"

---------------------------------------------------------------------------
(* robots.txt (BlacklistManager.checkRobotsTxt and parseRobotsTxt).  A     *)
(* robots.txt file is the sequence of its lines; a line is its field and   *)
(* the text after the first colon, a sequence of characters.               *)

\* the lookups of one run
MaxLookups == 2
\* the clock of the robots cache advances by half a day, this many times
MaxRobotTicks == 3

HalfDay == 12 * 60 * 60
\* 24 * 60 * 60 * 1000 ms, in seconds
cacheLifetime == 24 * 60 * 60

PathP == <<"/", "p">>
PathPX == <<"/", "p", "/", "x">>
PathQ == <<"/", "q">>
PathUpperP == <<"/", "P">>

AgentStar == <<"*">>
AgentXBot == <<"X", "b", "o", "t">>
AgentCurl == <<"c", "u", "r", "l">>

UserAgentLine(agent) == [field |-> "user-agent", value |-> agent]
DisallowLine(path) == [field |-> "disallow", value |-> path]

\* String.prototype.startsWith
startsWith(s, prefix) ==
    Len(prefix) <= Len(s) /\ SubSeq(s, 1, Len(prefix)) = prefix

\* line.split(':')[1]: the text between the first colon and the next one
splitColon(value) ==
    IF \E i \in 1..Len(value) : value[i] = ":"
    THEN SubSeq(value, 1,
                (CHOOSE i \in 1..Len(value) :
                    value[i] = ":" /\ \A j \in 1..(i - 1) : value[j] # ":") - 1)
    ELSE value

\* the value of a line as the parser sees it: lower case, up to the colon
lineValue(line) == splitColon(toLowerCase(line.value))

\* agent === '*' || agent.includes('bot') || agent.includes('spider')
agentApplies(agent) ==
    \/ agent = AgentStar
    \/ includes(agent, <<"b", "o", "t">>)
    \/ includes(agent, <<"s", "p", "i", "d", "e", "r">>)

\* a rule matches its own path only
disallowMatchesExactly(disallowPath, path) ==
    disallowPath = RootPath \/ (disallowPath # <<>> /\ path = disallowPath)

\* disallowPath === '/' || (disallowPath && path.startsWith(disallowPath))
disallowMatches(disallowPath, path) ==
    disallowPath = RootPath
    \/ (disallowPath # <<>> /\ startsWith(path, disallowPath))

\* the loop over the lines, from line i on, with the current user agent flag
RECURSIVE blockedFrom(_, _, _, _)
blockedFrom(content, path, i, currentUserAgent) ==
    IF i > Len(content) THEN FALSE
    ELSE LET line == content[i]
             agent == IF line.field = "user-agent"
                      THEN agentApplies(lineValue(line))
                      ELSE currentUserAgent
         IN
         IF agent /\ line.field = "disallow"
                  /\ disallowMatches(lineValue(line), path)
         THEN TRUE
         ELSE blockedFrom(content, path, i + 1, agent)

RobotsResult(blocked) ==
    [allowed |-> ~ blocked,
     reason |-> IF blocked THEN "Blocked by robots.txt"
                ELSE "Allowed by robots.txt"]

\* the lines of content before the second applicable user-agent line
FirstApplicableBlock(content) ==
    LET applicableAt == {i \in 1..Len(content) :
                            /\ content[i].field = "user-agent"
                            /\ agentApplies(lineValue(content[i]))}
        later == {i \in applicableAt : \E j \in applicableAt : j < i}
    IN
    IF later = {} THEN content
    ELSE SubSeq(content, 1, (CHOOSE i \in later : \A j \in later : i <= j) - 1)

\* a parser that stops at the end of the first applicable block
parseRobotsTxtFirstBlock(content, path) ==
    RobotsResult(blockedFrom(FirstApplicableBlock(content), path, 1, FALSE))

parseRobotsTxt(content, path) ==
    RobotsResult(blockedFrom(content, path, 1, FALSE))

\* the cached decision is kept up to and including its 24th hour
cacheFreshInclusive(domain) ==
    /\ domain \in DOMAIN robotsCache
    /\ now - robotsCache[domain].timestamp <= cacheLifetime

\* robotsCache.has(domain) && Date.now() - cached.timestamp < 24 h
cacheFresh(domain) ==
    /\ domain \in DOMAIN robotsCache
    /\ now - robotsCache[domain].timestamp < cacheLifetime

\* robotsCache.set(domain, { result, timestamp: Date.now() })
cacheSet(domain, result) ==
    [d \in DOMAIN robotsCache \cup {domain} |->
        IF d = domain THEN [result |-> result, timestamp |-> now]
        ELSE robotsCache[d]]

\* the robots.txt files a site may serve
FileDenyAll == <<UserAgentLine(AgentStar), DisallowLine(RootPath)>>
FileDenyP == <<UserAgentLine(AgentStar), DisallowLine(PathP)>>
FileTwoBlocks ==
    <<UserAgentLine(AgentStar), DisallowLine(PathP),
      UserAgentLine(AgentXBot), DisallowLine(PathQ)>>
FileOtherAgent == <<UserAgentLine(AgentCurl), DisallowLine(RootPath)>>
FileStarThenOther ==
    <<UserAgentLine(AgentStar), DisallowLine(PathP),
      UserAgentLine(AgentCurl), DisallowLine(PathQ)>>
FileUpperRule == <<UserAgentLine(AgentStar), DisallowLine(PathUpperP)>>
FileEmptyRule == <<UserAgentLine(AgentStar), DisallowLine(<<>>)>>

RobotsFiles ==
    {FileDenyAll, FileDenyP, FileTwoBlocks, FileOtherAgent, FileStarThenOther,
     FileUpperRule, FileEmptyRule}

\* the ways the request for robots.txt can end without a 200 response
FetchFailures == {"non-200", "error", "timeout"}

Lookups == 1..MaxLookups

IdleLookup ==
    [pc |-> "idle", url |-> NoUrl, at |-> 0, response |-> "none",
     file |-> <<>>, fetched |-> FALSE, valid |-> FALSE, reason |-> "none"]

\* validateUrlEnhanced returns to its caller
LookupDone(v, f, response, valid, reason) ==
    [robotsLookups EXCEPT ![v] =
        [f EXCEPT !.pc = "done", !.response = response,
                  !.valid = valid, !.reason = reason]]

\* validateUrlEnhanced(url) up to the request for robots.txt: the checks of
\* validateUrl, the cache of checkRobotsTxt and the call of https.get, which
\* throws for a protocol other than https: inside the promise, so that
\* validateUrlEnhanced catches the rejection; fetched records that https.get
\* was called and at the time of the lookup
ValidateStart(v, url) ==
    /\ v \in Lookups
    /\ robotsLookups[v].pc = "idle"
    /\ IF v = 1 THEN TRUE ELSE robotsLookups[v - 1].pc # "idle"
    /\ LET f == [IdleLookup EXCEPT !.url = url, !.at = now]
           domain == hostname(url)
       IN
       IF validateUrl(url, TRUE) # "URL validated"
       THEN /\ robotsLookups' =
                   LookupDone(v, f, "none", FALSE, validateUrl(url, TRUE))
            /\ UNCHANGED robotsCache
       ELSE IF cacheFresh(domain)
       THEN /\ robotsLookups' =
                   LookupDone(v, f, "cache",
                              robotsCache[domain].result.allowed,
                              validateUrl(url, robotsCache[domain].result.allowed))
            /\ UNCHANGED robotsCache
       ELSE IF url.protocol # "https:"
       THEN /\ robotsLookups' =
                   LookupDone(v, [f EXCEPT !.fetched = TRUE], "threw", FALSE,
                              "Validation error")
            /\ UNCHANGED robotsCache
       ELSE /\ robotsLookups' =
                   [robotsLookups EXCEPT ![v] =
                       [f EXCEPT !.pc = "fetching", !.fetched = TRUE]]
            /\ UNCHANGED robotsCache
    /\ UNCHANGED <<now, desktopVars, scraperVars, creditVars, abuseVars, ledgerVars, req>>

\* the request for robots.txt ends without a 200 response: a response with
\* another status is cached as allowed, an error or a timeout is not cached
FetchFails(v, failure) ==
    /\ robotsLookups[v].pc = "fetching"
    /\ failure \in FetchFailures
    /\ LET f == robotsLookups[v]
           result == [allowed |-> TRUE,
                      reason |-> IF failure = "non-200" THEN "No robots.txt found"
                                 ELSE IF failure = "error"
                                 THEN "robots.txt check failed"
                                 ELSE "robots.txt timeout"]
       IN
       /\ robotsCache' = IF failure = "non-200"
                         THEN cacheSet(hostname(f.url), result)
                         ELSE robotsCache
       /\ robotsLookups' =
              LookupDone(v, f, failure, result.allowed,
                         validateUrl(f.url, result.allowed))
    /\ UNCHANGED <<now, desktopVars, scraperVars, creditVars, abuseVars, ledgerVars, req>>

\* the 200 response has ended: the file is parsed for the path of the URL
\* and the decision is cached under the domain
FetchEnds(v, content) ==
    /\ robotsLookups[v].pc = "fetching"
    /\ LET f == robotsLookups[v]
           result == parseRobotsTxt(content, f.url.path)
       IN
       /\ robotsCache' = cacheSet(hostname(f.url), result)
       /\ robotsLookups' =
              LookupDone(v, [f EXCEPT !.file = content], "200", result.allowed,
                         validateUrl(f.url, result.allowed))
    /\ UNCHANGED <<now, desktopVars, scraperVars, creditVars, abuseVars, ledgerVars, req>>

RobotUrls ==
    {BadUrl, Url(HostXCom), Url(HostBIo), HttpUrlAt(HostAIo, RootPath),
     UrlAt(HostAIo, RootPath), UrlAt(HostAIo, PathPX), UrlAt(HostAIo, PathQ)}

InitRobots ==
    /\ now = 0
    /\ tokens = <<>>
    /\ nextToken = 1
    /\ ipTracker = <<>>
    /\ domainTracker = <<>>
    /\ suspiciousIPs = {}
    /\ bannedIPs = {}
    /\ abuseFile = <<>>
    /\ reportTasks = <<>>
    /\ nextReport = 1
    /\ blacklistFailures = <<>>
    /\ req = <<>>
    /\ robotsCache = <<>>
    /\ robotsLookups = [v \in Lookups |-> IdleLookup]
    /\ NoDesktop
    /\ NoScraper

RobotsValidate == \E v \in Lookups, url \in RobotUrls : ValidateStart(v, url)
RobotsFetchFails ==
    \E v \in Lookups, failure \in FetchFailures : FetchFails(v, failure)
RobotsFetchEnds == \E v \in Lookups, content \in RobotsFiles : FetchEnds(v, content)
RobotsClock == AdvanceClock(HalfDay, MaxRobotTicks)

NextRobots ==
    \/ RobotsValidate
    \/ RobotsFetchFails
    \/ RobotsFetchEnds
    \/ RobotsClock

SpecRobots == InitRobots /\ [][NextRobots]_vars

\* the lookups that fetched robots.txt and parsed a 200 response
Parsed == {v \in Lookups : robotsLookups[v].pc = "done"
                           /\ robotsLookups[v].response = "200"}

\* C21: when the file is the block "User-agent: *" with one rule, the rule
\* "Disallow: /" denies every path, and a rule "Disallow: /p" denies every
\* path that begins with /p and allows every path that does not
C21_DisallowDeniesByPrefix ==
    \A v \in Parsed :
        LET f == robotsLookups[v]
            path == f.url.path
        IN
        /\ f.file = FileDenyAll => ~ f.valid
        /\ f.file = FileDenyP =>
               (f.valid <=> ~ (Len(path) >= 2 /\ SubSeq(path, 1, 2) = PathP))

\* both cases of the rule "/p" have happened: it denied /p/x and it
\* allowed /q
C21_Witness ==
    \E v, w \in Parsed :
        /\ robotsLookups[v].file = FileDenyP
        /\ robotsLookups[v].url.path = PathPX
        /\ ~ robotsLookups[v].valid
        /\ robotsLookups[w].file = FileDenyP
        /\ robotsLookups[w].url.path = PathQ
        /\ robotsLookups[w].valid

\* the user-agent lines of a file that apply to the scraper
ApplicableLines(content) ==
    {i \in 1..Len(content) : /\ content[i].field = "user-agent"
                             /\ agentApplies(lineValue(content[i]))}

\* the user-agent line that opens the block line i belongs to, 0 if none
BlockOf(content, i) ==
    LET before == {j \in 1..i : content[j].field = "user-agent"}
    IN IF before = {} THEN 0 ELSE CHOOSE j \in before : \A k \in before : k <= j

\* line i is a Disallow rule that matches the path
RuleMatches(content, i, path) ==
    /\ content[i].field = "disallow"
    /\ disallowMatches(lineValue(content[i]), path)

\* the lookups that parsed a file with several applicable blocks
ParsedSeveralBlocks ==
    {v \in Parsed : Cardinality(ApplicableLines(robotsLookups[v].file)) >= 2}

FetchFailed ==
    {v \in Lookups : /\ robotsLookups[v].pc = "done"
                     /\ robotsLookups[v].url.kind = "url"
                     /\ ~ isBlacklisted(robotsLookups[v].url)
                     /\ robotsLookups[v].response \in FetchFailures \cup {"threw"}}

\* C23: the robots.txt check fails open: for a well-formed URL outside the
\* blacklist, no failure of the request for robots.txt makes the legality
\* check deny
C23_FetchFailureNeverDenies ==
    \A v \in FetchFailed : robotsLookups[v].valid

\* the lookups that begin in this step and pass the checks before robots.txt
LookupBegins(v) ==
    /\ robotsLookups[v].pc = "idle"
    /\ robotsLookups'[v].pc # "idle"
    /\ validateUrl(robotsLookups'[v].url, TRUE) = "URL validated"

\* C24: a lookup requests robots.txt exactly when no decision is cached for
\* its domain or the cached decision is 24 hours old or older; while a
\* decision younger than 24 hours is cached, no lookup for the domain fetches
C24_CachedFor24Hours ==
    [][\A v \in Lookups :
          LookupBegins(v) =>
              LET domain == hostname(robotsLookups'[v].url)
              IN robotsLookups'[v].fetched <=>
                     \/ domain \notin DOMAIN robotsCache
                     \/ now - robotsCache[domain].timestamp >= cacheLifetime]_vars

\* a lookup fetches again exactly 24 hours after an earlier lookup cached
\* the decision for its domain
C24_Witness ==
    \E v \in Lookups :
        LET domain == hostname(robotsLookups[v].url)
        IN
        /\ robotsLookups[v].pc = "fetching"
        /\ domain \in DOMAIN robotsCache
        /\ robotsLookups[v].at - robotsCache[domain].timestamp = cacheLifetime

---------------------------------------------------------------------------
(* The incident ledger at its capacity: POST /admin/ban-ip files one       *)
(* report per call, and the ledger already holds 999 incidents.            *)

\* the incidents in the ledger when the run begins
Preloaded == 999
\* the reports filed in one run
MaxLedgerReports == 3

OtherCaller == "ip2"

InitLedger ==
    /\ now = 0
    /\ tokens = <<>>
    /\ nextToken = 1
    /\ ipTracker = <<>>
    /\ domainTracker = <<>>
    /\ suspiciousIPs = {}
    /\ bannedIPs = {}
    /\ abuseFile = [i \in 1..Preloaded |->
                       [id |-> i, ip |-> "ip0", reason |-> "Manual ban"]]
    /\ reportTasks = <<>>
    /\ nextReport = Preloaded + 1
    /\ blacklistFailures = <<>>
    /\ req = <<>>
    /\ NoRobots
    /\ NoScraper
    /\ NoDesktop

\* POST /admin/ban-ip
LedgerBan ==
    \E ip \in {Caller, OtherCaller} :
        /\ CommitUpTo(banIP(AbuseState, ip), Preloaded + MaxLedgerReports)
        /\ UNCHANGED <<now, robotVars, desktopVars, scraperVars, creditVars, req>>

LedgerReads == \E t \in DOMAIN reportTasks : ReportRead(t)

LedgerWrites == \E t \in DOMAIN reportTasks : ReportWrite(t)

NextLedger ==
    \/ LedgerBan
    \/ LedgerReads
    \/ LedgerWrites

SpecLedger == InitLedger /\ [][NextLedger]_vars

\* the incidents reported so far are numbered 1 .. nextReport - 1; the
\* numbers of the most recent min(n, 1000) of them, in report order
RecentReports ==
    LET n == nextReport - 1
        kept == IF n > maxReports THEN maxReports ELSE n
    IN [i \in 1..kept |-> n - kept + i]

\* C25: the ledger never holds more than 1000 incidents, and once every
\* report has been written it holds exactly the most recent min(n, 1000)
\* reported incidents, in report order
C25_LedgerIsRecentReports ==
    /\ Len(abuseFile) <= maxReports
    /\ reportTasks = <<>> =>
           [i \in 1..Len(abuseFile) |-> abuseFile[i].id] = RecentReports

---------------------------------------------------------------------------
(* The life of a request.  Every await of a handler settles: the gateway   *)
(* with weak fairness on the steps that follow an await.                   *)

SpecGateFair ==
    /\ SpecGate
    /\ WF_vars(FreeValidated)
    /\ WF_vars(FreeExtracted)
    /\ WF_vars(FreeRespond)
    /\ WF_vars(GatePaidSettle)

\* how often the extraction engine was invoked for a request
Extractions(f) ==
    Cardinality({i \in 1..Len(f.steps) : f.steps[i] = "extraction"})

DeniedWithout(f) ==
    /\ f.outcome = "none"
    /\ Extractions(f) = 0
    /\ f.status \in {400, 402, 403, 429}

SettledSuccess(f) ==
    f.deniedAt = "none" /\ f.outcome = "success" /\ f.status = 200

SettledFailure(f) ==
    f.deniedAt = "none" /\ f.outcome \in {"failure", "threw"} /\ f.status = 500

OneTerminalState ==
    \A r \in DOMAIN req :
        /\ Extractions(req[r]) <= 1
        /\ req[r].pc = "done" =>
               \/ DeniedWithout(req[r])
                      /\ req[r].deniedAt \in
                             {"ban", "rate", "input", "legality", "credit"}
               \/ SettledSuccess(req[r])
               \/ SettledFailure(req[r])

---------------------------------------------------------------------------
(* EasyScraper, the desktop application: the handler of 'start-scraping'   *)
(* in main.js.  LicenseManager (./license) is not among the sources; it is *)
(* modelled by what main.js and the renderer read from it: checkLicense    *)
(* answers {valid, dailyUsage} and trackUsage counts one more scrape today.*)

\* the start-scraping calls of one run
MaxDesktopCalls == 4

\* README.md: "Free Trial - 10 scrapes per day"
freeTrialScrapes == 10
\* main.js: license.dailyUsage >= 3
freeTierLimit == 3

DesktopCalls == 1..MaxDesktopCalls

IdleCall == [pc |-> "idle", valid |-> FALSE, dailyUsage |-> 0]

\* LicenseManager.checkLicense: the license file merged with the usage file;
\* all calls are made on one day, so getUsageData resets nothing
checkLicense == [valid |-> licenseValid, dailyUsage |-> dailyUsage]

\* LicenseManager.trackUsage: dailyUsage of the usage file, plus one
trackUsage == dailyUsage + 1

\* lines 63-72: the license check; the call is refused or the scrape begins
StartScraping(c) ==
    /\ c \in DesktopCalls
    /\ desktop[c].pc = "idle"
    /\ IF c = 1 THEN TRUE ELSE desktop[c - 1].pc # "idle"
    /\ LET license == checkLicense
           f == [IdleCall EXCEPT !.valid = license.valid,
                                 !.dailyUsage = license.dailyUsage]
       IN
       IF ~ license.valid /\ license.dailyUsage >= freeTierLimit
       THEN desktop' = [desktop EXCEPT ![c] = [f EXCEPT !.pc = "refused"]]
       ELSE desktop' = [desktop EXCEPT ![c] = [f EXCEPT !.pc = "scraping"]]
    /\ UNCHANGED <<now, scraperVars, licenseValid, dailyUsage, robotVars, creditVars,
                   abuseVars, ledgerVars, req>>

\* lines 72-81: scrapeWebsite has returned its result, and the usage is
\* counted for the license seen at the start, or it has thrown
ScrapingEnds(c, returned) ==
    /\ c \in DesktopCalls
    /\ desktop[c].pc = "scraping"
    /\ desktop' = [desktop EXCEPT ![c].pc = IF returned THEN "done" ELSE "failed"]
    /\ dailyUsage' = IF returned /\ ~ desktop[c].valid THEN trackUsage
                     ELSE dailyUsage
    /\ UNCHANGED <<now, scraperVars, licenseValid, robotVars, creditVars, abuseVars,
                   ledgerVars, req>>

InitDesktop ==
    /\ now = 0
    /\ tokens = <<>>
    /\ nextToken = 1
    /\ ipTracker = <<>>
    /\ domainTracker = <<>>
    /\ suspiciousIPs = {}
    /\ bannedIPs = {}
    /\ abuseFile = <<>>
    /\ reportTasks = <<>>
    /\ nextReport = 1
    /\ blacklistFailures = <<>>
    /\ req = <<>>
    /\ NoRobots
    /\ NoScraper
    /\ licenseValid \in BOOLEAN
    /\ dailyUsage = 0
    /\ desktop = [c \in DesktopCalls |-> IdleCall]

DesktopStart == \E c \in DesktopCalls : StartScraping(c)
DesktopEnds == \E c \in DesktopCalls, returned \in BOOLEAN : ScrapingEnds(c, returned)

NextDesktop ==
    \/ DesktopStart
    \/ DesktopEnds

SpecDesktop == InitDesktop /\ [][NextDesktop]_vars

\* C27: an unlicensed user may start 10 scrapes a day: a start is refused
\* only when the usage of the day has reached 10
C27_RefusedOnlyAtTen ==
    \A c \in DesktopCalls :
        desktop[c].pc = "refused" => desktop[c].dailyUsage >= freeTrialScrapes

---------------------------------------------------------------------------
(* The grants of the tiers, checked under SpecConsume *)

\* getCreditsForTier: "10 basic scrapes", "20 premium scrapes", "50 custom
\* scrapes"
documentedScrapes(tier) ==
    CASE tier = "basic" -> 10
      [] tier = "premium" -> 20
      [] tier = "custom" -> 50

\* C28: on a fresh token of tier T, the r-th of a sequence of scrapes of tier
\* T succeeds as long as r is at most the documented number of scrapes of
\* the tier (10 basic, 20 premium, 50 custom), and the next one is refused
\* for insufficient credits
C28_GrantPermitsDocumentedScrapes ==
    \A r \in Calls :
        (req[r].pc # "idle" /\ req[r].tier = tokens[1].tier) =>
            IF r <= documentedScrapes(tokens[1].tier)
            THEN req[r].deniedAt = "none"
            ELSE req[r].status = 402 /\ req[r].error = "insufficient"

---------------------------------------------------------------------------
(* Further claims about the bans and the windows, checked under SpecRate *)

\* C29: the fast-path ban counts blacklist failures only: when a failure
\* recorded for a blacklisted URL bans the caller, at least 3 of the
\* caller's failures in the window were recorded for the blacklist
C29_BanCountsBlacklistFailuresOnly ==
    [][\A r \in GateReqs :
          (/\ req[r].pc = "validating"
           /\ req'[r].pc = "done"
           /\ namesBlacklist(req'[r].reason)
           /\ req'[r].ip \in bannedIPs' \ bannedIPs)
          => /\ req'[r].ip \in DOMAIN blacklistFailures'
             /\ Len(InWindow(blacklistFailures'[req'[r].ip], now))
                    >= maxBlacklistAttempts]_vars


\* C30: the domain windows are kept per caller: whatever the requests of
\* one caller have recorded against a domain, a caller that has recorded
\* nothing is admitted for it
C30_OtherCallerUnaffected ==
    \A domain \in {HostAIo, HostBIo} :
        OtherCaller \notin DOMAIN ipTracker =>
            checkRateLimit(AbuseState, OtherCaller, domain).allowed

---------------------------------------------------------------------------
(* The ledger under overlapping reports, checked under SpecLedger *)

\* the numbers of the incidents the ledger holds
LedgerIds == {abuseFile[i].id : i \in 1..Len(abuseFile)}

\* C31: the ledger is append-only under concurrency: once every report has
\* been written, each reported incident that the capacity of 1000 has not
\* evicted is in the ledger
C31_NoReportLost ==
    reportTasks = <<>> =>
        \A id \in 1..(nextReport - 1) :
            id > nextReport - 1 - maxReports => id \in LedgerIds

---------------------------------------------------------------------------
(* The cached robots decision, checked under SpecRobots *)

\* the lookups that were answered while the site served "Disallow: /p":
\* those that parsed that file, and those answered from the decision that
\* such a lookup had cached
AnsweredUnderDenyP ==
    {v \in Lookups :
        /\ robotsLookups[v].pc = "done"
        /\ robotsLookups[v].url.kind = "url"
        /\ robotsLookups[v].url.protocol = "https:"
        /\ hostname(robotsLookups[v].url) = HostAIo
        /\ \/ robotsLookups[v].file = FileDenyP
           \/ /\ robotsLookups[v].response = "cache"
              /\ \E w \in Parsed :
                     /\ robotsLookups[w].file = FileDenyP
                     /\ hostname(robotsLookups[w].url) = HostAIo
                     /\ \A u \in Parsed \ {w} :
                            hostname(robotsLookups[u].url) # HostAIo}

\* C32: the decision for a URL depends on the robots.txt of its host and on
\* its own path only: with "Disallow: /p", /p/x is denied and /q is allowed
\* whichever path of the host was looked up before
C32_DecisionFollowsOwnPath ==
    \A v \in AnsweredUnderDenyP :
        robotsLookups[v].valid <=>
            ~ startsWith(robotsLookups[v].url.path, PathP)

---------------------------------------------------------------------------
(* The URL check of POST /scrape against the blacklist of the legality     *)
(* gate, for the hosts of SpecLegality, a host in both lists (tiktok.com)   *)
(* and a host that only contains it (atiktok.com).                          *)

HostATiktok == <<"a">> \o HostTiktok

PaidLegalUrls ==
    LegalUrls \cup {BadUrl, Url(HostTiktok), Url(HostATiktok)}

PaidLegalStart ==
    \E r \in GateReqs, url \in PaidLegalUrls :
        ScrapeStart(r, Caller, url, 1, "basic")

NextPaidLegality ==
    \/ PaidLegalStart
    \/ GatePaidSettle

SpecPaidLegality == InitGate /\ [][NextPaidLegality]_vars

\* C33: POST /scrape and the legality gate agree on the blacklist: no URL
\* that isBlacklisted denies reaches the credit consume and the extraction,
\* and every URL that POST /scrape rejects as restricted is one that
\* isBlacklisted denies
C33_PaidCheckAgreesWithGate ==
    \A r \in GateReqs :
        req[r].endpoint = "scrape" =>
            /\ req[r].pc = "extracting" => ~ isBlacklisted(req[r].url)
            /\ (req[r].deniedAt = "legality" /\ req[r].restricted # <<>>) =>
                   isBlacklisted(Url(req[r].restricted))

---------------------------------------------------------------------------
(* Background compaction, checked under SpecRate *)

\* the entries of a window that are younger than one hour, in their order
Younger(times) == SelectSeq(times, LAMBDA time : now - time < windowMs)

\* C34: compaction removes exactly the entries that are one hour old or
\* older and exactly the keys whose windows are then empty, it leaves the
\* suspicious and the banned set alone, and the admission of any caller for
\* any domain answers the same after it as before it
C34_CompactionKeepsDecisions ==
    LET s == cleanOldEntries(AbuseState)
    IN
    /\ s.suspiciousIPs = suspiciousIPs
    /\ s.bannedIPs = bannedIPs
    /\ \A ip \in DOMAIN ipTracker :
           IF Younger(ipTracker[ip].requests) = <<>>
              /\ Younger(ipTracker[ip].failures) = <<>>
           THEN ip \notin DOMAIN s.ipTracker
           ELSE /\ ip \in DOMAIN s.ipTracker
                /\ s.ipTracker[ip].requests = Younger(ipTracker[ip].requests)
                /\ s.ipTracker[ip].failures = Younger(ipTracker[ip].failures)
    /\ DOMAIN s.ipTracker \subseteq DOMAIN ipTracker
    /\ \A d \in DOMAIN domainTracker :
           IF Younger(domainTracker[d].requests) = <<>>
           THEN d \notin DOMAIN s.domainTracker
           ELSE /\ d \in DOMAIN s.domainTracker
                /\ s.domainTracker[d].requests = Younger(domainTracker[d].requests)
    /\ DOMAIN s.domainTracker \subseteq DOMAIN domainTracker
    /\ \A ip \in {Caller, OtherCaller}, d \in {NoDomain, HostAIo, HostBIo} :
           /\ checkRateLimit(s, ip, d).allowed
                  = checkRateLimit(AbuseState, ip, d).allowed
           /\ checkRateLimit(s, ip, d).why = checkRateLimit(AbuseState, ip, d).why

\* compaction has evicted the caller's key: the caller has recorded a
\* request or a failure and is no longer tracked
C34_Witness ==
    /\ Caller \notin DOMAIN ipTracker
    /\ \E r \in GateReqs : req[r].recorded # <<>>

---------------------------------------------------------------------------
(* Two credit accounts under POST /scrape *)

\* the tokens and the requests of one run
MaxAccounts == 2
MaxAccountReqs == 2

AccountsIssue ==
    \E tier \in {"basic", "custom"} : generateAccessTokenUpTo(tier, MaxAccounts)

AccountsStart ==
    \E r \in 1..MaxAccountReqs, accessToken \in 1..MaxAccounts,
       tier \in {"basic", "toString"} :
        ScrapeStart(r, Caller, Url(HostAIo), accessToken, tier)

AccountsSettle ==
    \E r \in 1..MaxAccountReqs, outcome \in Outcomes : ScrapeSettle(r, outcome)

NextAccounts == AccountsIssue \/ AccountsStart \/ AccountsSettle \/ CreditClock

SpecAccounts == InitCredit /\ [][NextAccounts]_vars

\* the tokens a step acts for: the token of the request that moves and the
\* token that is issued
ActedFor ==
    {req'[r].accessToken : r \in {q \in DOMAIN req : req'[q] # req[q]}}
        \cup (DOMAIN tokens' \ DOMAIN tokens)

\* C35: credit accounts are isolated: an issue, a consume, a refund or an
\* expiry eviction for one token leaves the account of every other token as
\* it is
C35_AccountsIsolated ==
    [][\A t \in DOMAIN tokens \ ActedFor :
          t \in DOMAIN tokens' /\ tokens'[t] = tokens[t]]_vars

\* the first account was evicted on expiry while the second, issued later
\* and consumed once, is still there
C35_Witness ==
    /\ DOMAIN tokens = {2}
    /\ tokens[2].usedCredits = Num(1)
    /\ \E r \in DOMAIN req : req[r].accessToken = 1 /\ req[r].error = "expired"

---------------------------------------------------------------------------
(* The caller after an administrative unban, checked under SpecRate *)

\* the tables after the step
AbuseStateNext ==
    [ipTracker |-> ipTracker', domainTracker |-> domainTracker',
     suspiciousIPs |-> suspiciousIPs', bannedIPs |-> bannedIPs',
     blacklistFailures |-> blacklistFailures', filed |-> <<>>]

\* the caller's requests and the requests for the domain are below their
\* caps in the tables s
BelowRequestCaps(s, ip, domain) ==
    /\ ip \in DOMAIN s.ipTracker =>
           Len(InWindow(s.ipTracker[ip].requests, now)) < maxRequestsPerIP
    /\ domain \in DOMAIN s.domainTracker =>
           Len(InWindow(s.domainTracker[domain].requests, now))
               < maxRequestsPerDomain

\* C36: an administrative unban of a banned caller leaves it admitted: with
\* no failure recorded since the unban, its next request for a domain below
\* the request caps is admitted and does not ban it again
C36_UnbannedStaysAdmitted ==
    [][(Caller \in bannedIPs /\ AdminUnban(Caller)) =>
          \A domain \in {HostAIo, HostBIo} :
              BelowRequestCaps(AbuseStateNext, Caller, domain) =>
                  /\ checkRateLimit(AbuseStateNext, Caller, domain).allowed
                  /\ Caller \notin
                         checkRateLimit(AbuseStateNext, Caller, domain).s.bannedIPs]_vars


---------------------------------------------------------------------------
(* Claim about the cost of a consume, checked under SpecCredit *)

\* C37: a successful consume increases usedCredits by exactly the fixed cost
\* of the requested tier (basic 1, premium 5, custom 10; 1 for a name outside
\* the cost table), whatever tier the token was purchased for, and reports
\* remaining = totalCredits - usedCredits after the increment.
C37_ConsumeChargesTierCost ==
    \A accessToken \in DOMAIN tokens, tier \in TierNames :
        (/\ consumeResult(accessToken, tier) = "valid"
         /\ tokens[accessToken].usedCredits.kind = "num") =>
            LET after == validateAndConsumeCredit(accessToken, tier)
                used == tokens[accessToken].usedCredits.n + ContractCost(tier)
            IN
            /\ after[accessToken].usedCredits = Num(used)
            /\ remainingCredits(after, accessToken)
                  = Num(tokens[accessToken].credits.n - used)


---------------------------------------------------------------------------
(* enhanced-scraper.js: the shared browser and the pages of scrapeEnhanced. *)
(* A call is one process; an action is the code it runs between two awaits. *)

MaxScrapes == 3

ScrapeCalls == 1..MaxScrapes

\* a scrapeEnhanced call that has not been made
IdleScrape == [pc |-> "idle", browser |-> 0, robotsAllowed |-> TRUE,
               returned |-> "none"]

\* what page.goto(robotsUrl) and the reading of robots.txt come to: an OK
\* response whose rules allow or disallow the path, a response that is not
\* OK, a navigation that throws
RobotsOutcomes == {"allowed", "disallowed", "notOk", "threw"}

\* what page.goto(url) comes to
NavigationOutcomes == {"ok", "notOk", "threw"}

\* what the extraction (waitForSelector, evaluate, metrics) comes to
ExtractionOutcomes == {"ok", "threw"}

\* initBrowser up to its await: a browser that exists is returned, otherwise
\* puppeteer.launch is called and awaited
InitBrowserBegins(c) ==
    /\ scrapes[c].pc = "idle"
    /\ scrapes' = [scrapes EXCEPT ![c].pc =
                       IF browser = 0 THEN "launching" ELSE "launched",
                                  ![c].browser = browser]
    /\ UNCHANGED <<browser, browsers, pages>>

\* puppeteer.launch resolves: the new browser is stored in this.browser
LaunchEnds(c) ==
    /\ scrapes[c].pc = "launching"
    /\ browser' = c
    /\ browsers' = browsers \cup {c}
    /\ scrapes' = [scrapes EXCEPT ![c].pc = "launched", ![c].browser = c]
    /\ UNCHANGED pages

\* browser.newPage() of scrapeEnhanced, then checkRobotsTxt up to its
\* page.goto: initBrowser finds the browser, a second page is opened
NewPages(c) ==
    /\ scrapes[c].pc = "launched"
    /\ pages' = pages \cup {<<c, "scrape">>, <<c, "robots">>}
    /\ scrapes' = [scrapes EXCEPT ![c].pc = "robots"]
    /\ UNCHANGED <<browser, browsers>>

\* the rest of checkRobotsTxt and what scrapeEnhanced does with its result
RobotsChecked(c, outcome) ==
    /\ scrapes[c].pc = "robots"
    /\ LET closed == IF outcome = "threw" THEN {} ELSE {<<c, "robots">>}
       IN pages' = pages \ closed
    /\ scrapes' = [scrapes EXCEPT
          ![c].robotsAllowed = (outcome # "disallowed"),
          ![c].pc = IF outcome = "disallowed" THEN "done" ELSE "navigating",
          ![c].returned = IF outcome = "disallowed" THEN "robots" ELSE @]
    /\ UNCHANGED <<browser, browsers>>

\* page.goto(url) ends
Navigated(c, outcome) ==
    /\ scrapes[c].pc = "navigating"
    /\ pages' = IF outcome = "threw" THEN pages \ {<<c, "scrape">>} ELSE pages
    /\ scrapes' = [scrapes EXCEPT
          ![c].pc = IF outcome = "ok" THEN "extracting" ELSE "done",
          ![c].returned = CASE outcome = "ok" -> @
                            [] outcome = "notOk" -> "http"
                            [] OTHER -> "error"]
    /\ UNCHANGED <<browser, browsers>>

\* the extraction ends: the page is closed before the result is returned and
\* in the catch block
Extracted(c, outcome) ==
    /\ scrapes[c].pc = "extracting"
    /\ pages' = pages \ {<<c, "scrape">>}
    /\ scrapes' = [scrapes EXCEPT
          ![c].pc = "done",
          ![c].returned = IF outcome = "ok" THEN "success" ELSE "error"]
    /\ UNCHANGED <<browser, browsers>>

ScraperFrame ==
    UNCHANGED <<now, creditVars, abuseVars, ledgerVars, req, robotVars, desktopVars>>

InitScraper ==
    /\ now = 0
    /\ tokens = <<>>
    /\ nextToken = 1
    /\ ipTracker = <<>>
    /\ domainTracker = <<>>
    /\ suspiciousIPs = {}
    /\ bannedIPs = {}
    /\ abuseFile = <<>>
    /\ reportTasks = <<>>
    /\ nextReport = 1
    /\ blacklistFailures = <<>>
    /\ req = <<>>
    /\ NoRobots
    /\ NoDesktop
    /\ browser = 0
    /\ browsers = {}
    /\ pages = {}
    /\ scrapes = [c \in ScrapeCalls |-> IdleScrape]

ScraperBegins == \E c \in ScrapeCalls : InitBrowserBegins(c) /\ ScraperFrame
ScraperLaunched == \E c \in ScrapeCalls : LaunchEnds(c) /\ ScraperFrame
ScraperNewPages == \E c \in ScrapeCalls : NewPages(c) /\ ScraperFrame
ScraperRobots ==
    \E c \in ScrapeCalls, outcome \in RobotsOutcomes :
        RobotsChecked(c, outcome) /\ ScraperFrame
ScraperNavigated ==
    \E c \in ScrapeCalls, outcome \in NavigationOutcomes :
        Navigated(c, outcome) /\ ScraperFrame
ScraperExtracted ==
    \E c \in ScrapeCalls, outcome \in ExtractionOutcomes :
        Extracted(c, outcome) /\ ScraperFrame

NextScraper ==
    \/ ScraperBegins
    \/ ScraperLaunched
    \/ ScraperNewPages
    \/ ScraperRobots
    \/ ScraperNavigated
    \/ ScraperExtracted

SpecScraper == InitScraper /\ [][NextScraper]_vars

\* C38: every browser page opened by scrapeEnhanced is closed before
\* scrapeEnhanced returns, on every path (robots.txt disallowed, non-OK HTTP
\* status, successful extraction, thrown error): a call that has returned
\* has left none of its pages open.
C38_PagesClosedOnReturn ==
    \A c \in ScrapeCalls :
        scrapes[c].pc = "done" =>
            \A page \in pages : page[1] # c

\* C39: the shared browser is a singleton: at most one browser is ever
\* launched, even when several calls run initBrowser while no browser exists
\* yet.
C39_OneBrowserLaunched == Cardinality(browsers) <= 1


---------------------------------------------------------------------------
(* Claim about the daily limit of the desktop application, checked under   *)
(* SpecDesktop                                                             *)

\* the start-scraping calls that have called scraper.scrapeWebsite
StartedScrapes == {c \in DesktopCalls : desktop[c].pc \in {"scraping", "done", "failed"}}

\* C40: for an unlicensed user the number of scrapes started on one day
\* never exceeds the free-tier limit of the start-scraping handler, also
\* when calls overlap and when scrapes fail.
C40_StartedWithinFreeTier ==
    ~ licenseValid => Cardinality(StartedScrapes) <= freeTierLimit

=============================================================================
